---- MODULE Spec2Model ----
(***************************************************************************)
(* Verification model of the Express middlewares of prod-scripts.          *)
(*                                                                         *)
(* Part 1: the idempotency middleware `idempotency` of                     *)
(* src/misc/jwt-rotation-middleware.js (lines 114-224), run by several     *)
(* concurrent requests against one shared Redis store.                     *)
(*                                                                         *)
(* One step of a request is one Redis command taking effect together with  *)
(* the synchronous JavaScript that runs after its `await` up to the next   *)
(* command being issued; the wrapped handler's output calls are steps of   *)
(* their own.  Time is counted in seconds by Tick: every record carries    *)
(* the seconds it has left to live (the EX argument) and Redis removes it  *)
(* when they are used up.                                                  *)
(*                                                                         *)
(* Part 2: the derivation of the idempotency key taken alone.              *)
(*                                                                         *)
(* Part 3: the fixed-window rate limiter `rateLimiter` of                  *)
(* src/misc/express-redis-rate-limit.js (lines 14-59).                     *)
(*                                                                         *)
(* Part 4: the sliding-window rate limiter `createRateLimiter` of          *)
(* src/misc/express-rate-limit-redis.js (lines 6-54).  One step is one     *)
(* Redis command of a request taking effect: the commands of a pipeline    *)
(* are sent together and executed in order, with the commands of other     *)
(* clients in between.  The clock counts milliseconds.                     *)
(*                                                                         *)
(* Part 5: retryWithBackoff of src/unnamed/part_002; the clock counts      *)
(* the milliseconds a timer has run.                                       *)
(*                                                                         *)
(* Part 6: the refresh-token rotation of                                   *)
(* src/misc/jwt-rotation-middleware.js (lines 23-29 and 50-75), run by     *)
(* concurrent calls of /refresh for one user.                              *)
(*                                                                         *)
(* Part 7: the body-size guard bodySizeLimit of src/unnamed/part_003.      *)
(*                                                                         *)
(* Part 8: the server of src/unnamed/part_001 and its gracefulShutdown.    *)
(*                                                                         *)
(* Part 9: setupGracefulShutdown of src/misc/express-async-handler.js.     *)
(*                                                                         *)
(* Each part has its own variables and its own specification; the          *)
(* variables of the other parts stay as they are meanwhile.                *)
(***************************************************************************)
EXTENDS Integers, Sequences, FiniteSets, TLC

\* ------------------------------------------------------------------ bounds
MaxArrivals == 3   \* requests that arrive in one run
MaxTtl == 2        \* largest ttl / processingTtl option tried (seconds)
MaxRlReqs == 3     \* requests that reach a rate limiter in one run
MaxWindow == 2     \* largest window / windowSize option tried (seconds)
MaxMax == 2        \* largest max option tried
MaxClock == 3      \* half seconds that pass in one run of the sliding-window limiter
MaxRetries == 3    \* largest retries option tried
MaxMinDelay == 2   \* largest minDelay option tried (milliseconds)
MaxMaxDelay == 3   \* largest maxDelay option tried (milliseconds)
MaxFactor == 2     \* largest factor option tried
RandomSteps == 4   \* Math.random() returns one of 0/4, 1/4, 2/4, 3/4
MaxRefreshes == 3  \* calls of /refresh in one run
MaxBytes == 3      \* largest maxBytes tried
MaxChunk == 2      \* largest chunk of a request body (bytes)
MaxSockets == 2    \* connections open at once to a server that shuts down
MaxTimeout == 2    \* largest shutdown timeout tried, in steps of 500 ms
MaxCleanup == 3    \* most cleanup functions given to setupGracefulShutdown

\* The places of the requests in flight: two at once, one after another in each.
Reqs == {1, 2}

\* ------------------------------------------------------- request universe
\* the requests that arrive: method, Idempotency-Key header, originalUrl.
\* keyHeader is what req.get(header) yields read for truthiness: "" stands for
\* '' (the header was sent with an empty value) as for undefined (it was not
\* sent), which line 122 does not tell apart.
Arrivals ==
    {[method |-> "POST", keyHeader |-> "a", originalUrl |-> "/x"],
     [method |-> "POST", keyHeader |-> "",  originalUrl |-> "/x"],
     [method |-> "GET",  keyHeader |-> "a", originalUrl |-> "/x"]}
methods == {"POST", "PUT", "PATCH"}   \* option default, line 114

redisKey(method, keyHeader, originalUrl) ==
    "idem:" \o method \o ":" \o keyHeader \o ":" \o originalUrl

\* the keys a request that carries a token can derive
Keys == {redisKey(a.method, a.keyHeader, a.originalUrl) :
            a \in {x \in Arrivals : x.keyHeader # ""}}

\* ------------------------------------------------------ bytes and strings
\* Strings and Buffers are sequences of byte values (ASCII text).
Pad == 64                      \* the '=' of base64; sextets are 0..63

B64Group(g) ==
    LET n  == Len(g)
        b1 == g[1]
        b2 == IF n >= 2 THEN g[2] ELSE 0
        b3 == IF n >= 3 THEN g[3] ELSE 0
        v  == b1 * 65536 + b2 * 256 + b3
        s1 == v \div 262144
        s2 == (v \div 4096) % 64
        s3 == (v \div 64) % 64
        s4 == v % 64
    IN  CASE n = 1 -> <<s1, s2, Pad, Pad>>
          [] n = 2 -> <<s1, s2, s3, Pad>>
          [] OTHER -> <<s1, s2, s3, s4>>

RECURSIVE toBase64(_)
\* Buffer.prototype.toString('base64')
toBase64(b) ==
    IF Len(b) = 0 THEN <<>>
    ELSE IF Len(b) <= 3 THEN B64Group(b)
    ELSE B64Group(SubSeq(b, 1, 3)) \o toBase64(SubSeq(b, 4, Len(b)))

B64Ungroup(q) ==
    LET s3 == IF q[3] = Pad THEN 0 ELSE q[3]
        s4 == IF q[4] = Pad THEN 0 ELSE q[4]
        v  == q[1] * 262144 + q[2] * 4096 + s3 * 64 + s4
        b1 == v \div 65536
        b2 == (v \div 256) % 256
        b3 == v % 256
    IN  IF q[3] = Pad THEN <<b1>>
        ELSE IF q[4] = Pad THEN <<b1, b2>>
        ELSE <<b1, b2, b3>>

RECURSIVE fromBase64(_)
\* Buffer.from(s, 'base64')
fromBase64(s) ==
    IF Len(s) < 4 THEN <<>>
    ELSE B64Ungroup(SubSeq(s, 1, 4)) \o fromBase64(SubSeq(s, 5, Len(s)))

RECURSIVE BufferConcat(_)
\* Buffer.concat(chunks)
BufferConcat(cs) ==
    IF Len(cs) = 0 THEN <<>> ELSE Head(cs) \o BufferConcat(Tail(cs))

\* JSON text of an object: the text is kept apart from the object it encodes.
JSONstringify(obj) == <<"json", obj>>
JSONparse(text) == text[2]

\* parsed.<field> read for truthiness: a missing field is undefined (falsy).
Flag(parsed, field) == field \in DOMAIN parsed /\ parsed[field] = TRUE

\* --------------------------------------------------------- handler bodies
\* What a handler may pass to res.send / res.json / res.write / res.end.
StrOk    == [kind |-> "string", bytes |-> <<111, 107>>]     \* 'ok'
StrEmpty == [kind |-> "string", bytes |-> <<>>]             \* ''
BufOne   == [kind |-> "buffer", bytes |-> <<1>>]            \* Buffer.from([1])
ObjEmpty == [kind |-> "object", bytes |-> <<123, 125>>]     \* {} ; bytes = JSON.stringify
Undef    == [kind |-> "undefined", bytes |-> <<>>]          \* no argument

\* the calls a handler may answer with: <<status, argument>>
SendArgs  == {<<200, StrOk>>, <<201, BufOne>>, <<200, Undef>>, <<200, ObjEmpty>>}
JsonArgs  == {<<200, ObjEmpty>>}
WriteArgs == {<<200, StrOk>>}
EndArgs   == {<<200, StrOk>>, <<200, Undef>>}

\* JavaScript truthiness of a body argument: `if (body)`, `if (chunk)`.
Truthy(b) ==
    CASE b.kind = "undefined" -> FALSE
      [] b.kind = "string" -> Len(b.bytes) > 0
      [] OTHER -> TRUE

\* Content-Type values
NoType   == ""
HtmlType == "text/html; charset=utf-8"
JsonType == "application/json; charset=utf-8"
BinType  == "application/octet-stream"

\* Express res.send: the Content-Type it puts when none is set yet.
SendType(current, b) ==
    IF current # NoType THEN current
    ELSE CASE b.kind = "string" -> HtmlType
           [] b.kind = "buffer" -> BinType
           [] b.kind = "object" -> JsonType
           [] OTHER -> NoType

\* ------------------------------------------------------------------ state
NoRecord == [val |-> <<"nil">>, left |-> 0, owner |-> 0]
NoResp == [kind |-> "none", status |-> 0, ctype |-> NoType, body |-> <<>>, error |-> ""]
ConflictResp ==
    [kind |-> "conflict", status |-> 409, ctype |-> JsonType, body |-> <<>>,
     error |-> "Request is being processed"]
NoReq == [method |-> "", keyHeader |-> "", originalUrl |-> ""]

VARIABLES
    ttl,            \* option ttl: seconds a stored response is kept
    processingTtl,  \* option processingTtl: seconds a processing marker is kept
    store,          \* Redis: key -> [val: JSON text, left: seconds to live, owner]
                    \*   owner (history): the request in flight whose command wrote it
    pc,             \* where each request is
    req,            \* each request's method, Idempotency-Key header, originalUrl
    hooked,         \* res.write / res.end / res.send overridden for this request
    chunks,         \* the `chunks` array of the request's closure
    pending,        \* redis.set commands issued by res.send, not yet at the store
    resp,           \* what the client has received
    nextCalls,      \* the middleware's calls of next: "ok" = next(), "err" = next(err)
    ops,            \* history: Redis commands issued by the request, in order
    fresh,          \* history: the request is a claim holder whose handler has
                    \*   sent its response, and no second has passed since
    late,           \* history: the request arrived when a fresh claim holder of its
                    \*   key was over, and no second has passed since
    arrived,        \* history: how many requests have arrived
    claimLeft       \* history: seconds left of the processingTtl seconds that began
                    \*   when the request won its claim, while its handler runs

idemVars == <<ttl, processingTtl, store, pc, req, hooked, chunks, pending, resp,
              nextCalls, ops, fresh, late, arrived, claimLeft>>

\* Part 2: the derivation of the store key (line 124) taken alone, applied to
\* two requests side by side.
VARIABLES
    kin,            \* the two requests: method, Idempotency-Key header, originalUrl
    kout            \* the keys derived for them, <<>> before the derivation

keyVars == <<kin, kout>>

\* Part 3: the fixed-window rate limiter, express-redis-rate-limit.js.
RlReqs == 1..MaxRlReqs
Ips == {"1.1.1.1", "2.2.2.2"}          \* what id(req) returns: req.ip
keyPrefix == "rl:"                     \* option default, line 18
NoRes == [status |-> 0, next |-> FALSE, remaining |-> 0, retryAfter |-> 0]

VARIABLES
    window,         \* option window: seconds
    max,            \* option max: requests per window
    counter,        \* Redis: key -> value of the counter, 0 when the key is absent
    expiry,         \* Redis: key -> seconds the key has left, 0 when it has no TTL
    rlPc,           \* where each request is
    identifier,     \* each request's identifier
    current,        \* each request's `current`, the reply of its INCR
    res,            \* each request's outcome: status sent, next() called, headers
    epoch,          \* history: key -> how many times the key has expired
    counted,        \* history: the epoch of its key in which the request's INCR fell
    rlFault         \* history: a Redis command of the limiter has failed

rlVars == <<window, max, counter, expiry, rlPc, identifier, current, res, epoch,
            counted, rlFault>>

\* Part 4: the sliding-window rate limiter, express-rate-limit-redis.js.
TickMs == 500                          \* the step of the clock, in milliseconds
swKeyPrefix == "rl"                    \* option default keyPrefix, line 6
NoSwRes == [status |-> 0, next |-> FALSE, retryAfter |-> 0, remaining |-> 0, at |-> 0]

VARIABLES
    windowSize,     \* option windowSize: seconds
    maxSw,          \* option max: requests per window
    clock,          \* Date.now(), milliseconds
    zset,           \* Redis: key -> the sorted set, a set of [member, score]
    deadline,       \* Redis: key -> the time at which the key expires, 0 for none
    swPc,           \* where each request is
    swId,           \* each request's `id`
    now,            \* each request's `now`
    count,          \* each request's `count`, the reply of its ZCARD
    swRes,          \* each request's outcome: status sent, next() called, headers;
                    \*   at (history): the time of the call of next()
    swFault         \* history: a Redis command of the request has failed

swVars == <<windowSize, maxSw, clock, zset, deadline, swPc, swId, now, count,
            swRes, swFault>>

\* Part 5: retryWithBackoff, src/unnamed/part_002 (misc/retry-with-backoff.js).
\* An error value: what was thrown, by which attempt, and whether a custom
\* shouldRetry accepts it.
Err(k, a, b) == [kind |-> k, attempt |-> a, retryable |-> b]
Undefined == Err("undefined", 0, FALSE)    \* `let lastError;`, line 42
AbortedErr == Err("Aborted", 0, FALSE)     \* new Error('Aborted'), lines 6, 10, 45
Pending == [kind |-> "pending", err |-> Undefined]

VARIABLES
    options,        \* the options of the call, lines 30-39
    rtPc,           \* "call", "fn" (awaiting fn), "timer" (awaiting delay), "done"
    attempt,        \* `attempt`
    lastError,      \* `lastError`
    aborted,        \* signal.aborted
    outcome,        \* how the promise of the call settled: kind, err
    calls,          \* history: the attempt numbers fn was invoked with
    errors,         \* history: the errors fn rejected with
    onRetryCalls,   \* history: the calls of onRetry, [attempt, next]
    delays,         \* history: the calls of delay that set a timer:
                    \*   [after, ms, elapsed, fired]
    abortAt         \* history: [pc, calls] when the signal was aborted

rtVars == <<options, rtPc, attempt, lastError, aborted, outcome, calls, errors,
            onRetryCalls, delays, abortAt>>

NoAbort == [pc |-> "none", calls |-> 0]

\* The state in which retryWithBackoff is called with options o.
RtStartState(o) ==
    /\ options = o
    /\ rtPc = "call"
    /\ attempt = 0                                        \* line 41
    /\ lastError = Undefined                              \* line 42
    /\ aborted = FALSE
    /\ outcome = Pending
    /\ calls = <<>> /\ errors = <<>> /\ onRetryCalls = <<>> /\ delays = <<>>
    /\ abortAt = NoAbort

\* retryWithBackoff is not in use.
RtOff ==
    RtStartState([retries |-> 1, minDelay |-> 1, maxDelay |-> 1, factor |-> 1,
                  jitter |-> FALSE, shouldRetry |-> "default",
                  onRetry |-> "none", signal |-> FALSE])

\* Part 6: the refresh-token rotation of jwt-rotation-middleware.js, lines
\* 23-29 and 50-75, for one user.  A refresh token is known by its jti; the jti
\* of uuidv4 are numbered in the order they are drawn.
VARIABLES
    storedJti,      \* Redis: the value of refresh:<userId>, 0 when absent
    issued,         \* the number of refresh tokens signed so far
    rfPc,           \* where each call of /refresh is: "idle", "get", "sign", "done"
    presented,      \* the jti of the refresh token in each call's body
    rfStatus        \* the status each call was answered with, 0 before

rfVars == <<storedJti, issued, rfPc, presented, rfStatus>>

RfCalls == 1..MaxRefreshes

\* The user has logged in (lines 100-105): one refresh token, stored.
RfOff ==
    /\ storedJti = 1 /\ issued = 1
    /\ rfPc = [r \in RfCalls |-> "idle"]
    /\ presented = [r \in RfCalls |-> 0]
    /\ rfStatus = [r \in RfCalls |-> 0]

\* Part 7: the body-size guard bodySizeLimit of src/unnamed/part_003
\* (express-body-size-guard.js), for one request.
VARIABLES
    maxBytes,       \* the argument of bodySizeLimit
    lenHeader,      \* req.headers['content-length'], "" when absent
    bsPc,           \* "idle", "listening" (the listeners are attached), "done"
    received,       \* `received`
    finished,       \* `finished`
    ended,          \* the status codes res.end was called with
    nexts,          \* the calls of next: "ok" = next(), "err" = next(err)
    destroyed       \* req.socket.destroyed

bsVars == <<maxBytes, lenHeader, bsPc, received, finished, ended, nexts, destroyed>>

\* The state in which a request with header h reaches bodySizeLimit(m).
BsStartState(m, h) ==
    /\ maxBytes = m /\ lenHeader = h
    /\ bsPc = "idle"
    /\ received = 0 /\ finished = FALSE
    /\ ended = <<>> /\ nexts = <<>>
    /\ destroyed = FALSE

\* The guard is not in use.
BsOff == BsStartState(1, "")

\* Part 8: the server of src/unnamed/part_001 (graceful-shutdown.js) and its
\* gracefulShutdown.  The clock counts the milliseconds since the first
\* signal, in steps of checkInterval.
checkInterval == 500                   \* line 70
exitGrace == 500                       \* line 85
safetyMargin == 1000                   \* line 93

VARIABLES
    FORCE_SHUTDOWN_TIMEOUT, \* line 8, milliseconds
    inflightRequests,       \* line 11
    isShuttingDown,         \* line 12
    sockets,                \* the size of the set `sockets`: connections open
    gsClock,                \* Date.now() - start
    waitForInflight,        \* the interval of line 72 is set
    nextCheck,              \* the time of its next call
    forceExitAt,            \* the time the timer of line 85 fires, -1 when not set
    exitCode,               \* the argument of process.exit, -1 while running
    destroyedAll,           \* history: line 82 has destroyed the open sockets
    sequences               \* history: shutdown sequences started

gsVars == <<FORCE_SHUTDOWN_TIMEOUT, inflightRequests, isShuttingDown, sockets,
            gsClock, waitForInflight, nextCheck, forceExitAt, exitCode,
            destroyedAll, sequences>>

\* The server listens (line 49), with timeout t.
GsStartState(t) ==
    /\ FORCE_SHUTDOWN_TIMEOUT = t
    /\ inflightRequests = 0 /\ isShuttingDown = FALSE
    /\ sockets = 0
    /\ gsClock = 0
    /\ waitForInflight = FALSE /\ nextCheck = 0
    /\ forceExitAt = -1
    /\ exitCode = -1
    /\ destroyedAll = FALSE
    /\ sequences = 0

\* The server is not in use.
GsOff == GsStartState(checkInterval)

\* Part 9: setupGracefulShutdown of src/misc/express-async-handler.js, lines
\* 15-82.  The clock counts the milliseconds since shutdown was called, in
\* steps of half the grace of line 67.
graceMs == 1000                        \* line 67

VARIABLES
    timeout,        \* option timeout, milliseconds
    cleanupLeft,    \* the functions of `cleanup` that runCleanup has yet to run
    shuttingDown,   \* line 21
    connections,    \* the size of the set `connections`: sockets open
    sgClock,        \* the time since shutdown was called
    sgExit,         \* the argument of process.exit, -1 while running
    endedAt,        \* history: when the open sockets were ended (line 64), -1 before
    endedSockets,   \* history: how many sockets line 64 ended
    exitAt          \* history: when process.exit was called, -1 before

sgVars == <<timeout, cleanupLeft, shuttingDown, connections, sgClock, sgExit,
            endedAt, endedSockets, exitAt>>

\* setupGracefulShutdown({ server, cleanup, timeout }) has returned, with n
\* cleanup functions.
SgStartState(t, n) ==
    /\ timeout = t /\ cleanupLeft = n
    /\ shuttingDown = FALSE
    /\ connections = 0
    /\ sgClock = 0
    /\ sgExit = -1
    /\ endedAt = -1 /\ endedSockets = 0 /\ exitAt = -1

\* setupGracefulShutdown is not in use.
SgOff == SgStartState(graceMs, 0)

\* the parts 1 to 4 and the parts after them
firstVars == <<idemVars, keyVars, rlVars, swVars>>
laterVars == <<rtVars, rfVars, bsVars, gsVars, sgVars>>

\* the variables of the other parts, which the actions of a part leave alone
notIdem == <<keyVars, rlVars, swVars, laterVars>>
notKey == <<idemVars, rlVars, swVars, laterVars>>
notRl == <<idemVars, keyVars, swVars, laterVars>>
notSw == <<idemVars, keyVars, rlVars, laterVars>>
notRt == <<firstVars, rfVars, bsVars, gsVars, sgVars>>
notRf == <<firstVars, rtVars, bsVars, gsVars, sgVars>>
notBs == <<firstVars, rtVars, rfVars, gsVars, sgVars>>
notGs == <<firstVars, rtVars, rfVars, bsVars, sgVars>>
notSg == <<firstVars, rtVars, rfVars, bsVars, gsVars>>

vars == <<firstVars, laterVars>>

\* Nothing is being derived.
KeyOff == kin = <<NoReq, NoReq>> /\ kout = <<>>

IdemInit ==
    /\ ttl \in 1..MaxTtl
    /\ processingTtl \in 1..MaxTtl
    /\ store = [k \in Keys |-> NoRecord]
    /\ pc = [r \in Reqs |-> "idle"]
    /\ req = [r \in Reqs |-> NoReq]
    /\ hooked = [r \in Reqs |-> FALSE]
    /\ chunks = [r \in Reqs |-> <<>>]
    /\ pending = [r \in Reqs |-> <<>>]
    /\ resp = [r \in Reqs |-> NoResp]
    /\ nextCalls = [r \in Reqs |-> <<>>]
    /\ ops = [r \in Reqs |-> <<>>]
    /\ fresh = [r \in Reqs |-> FALSE]
    /\ late = [r \in Reqs |-> FALSE]
    /\ claimLeft = [r \in Reqs |-> 0]
    /\ arrived = 0

\* The idempotency middleware is not in use.
IdemOff == IdemInit /\ ttl = 1 /\ processingTtl = 1

rlKey(id) == keyPrefix \o id          \* line 25
RlKeys == {rlKey(i) : i \in Ips}

\* The state from which the fixed-window limiter starts, for given options.
RlStartState(w, m) ==
    /\ window = w /\ max = m
    /\ counter = [k \in RlKeys |-> 0]
    /\ expiry = [k \in RlKeys |-> 0]
    /\ rlPc = [r \in RlReqs |-> "idle"]
    /\ identifier = [r \in RlReqs |-> ""]
    /\ current = [r \in RlReqs |-> 0]
    /\ res = [r \in RlReqs |-> NoRes]
    /\ epoch = [k \in RlKeys |-> 0]
    /\ counted = [r \in RlReqs |-> 0]
    /\ rlFault = FALSE

\* The fixed-window limiter is not in use.
RlOff == RlStartState(1, 1)

swKey(id) == swKeyPrefix \o ":" \o id  \* line 14
SwKeys == {swKey(i) : i \in Ips}

\* The state from which the sliding-window limiter starts, for given options.
SwStartState(w, m) ==
    /\ windowSize = w /\ maxSw = m
    /\ clock = 0
    /\ zset = [k \in SwKeys |-> {}]
    /\ deadline = [k \in SwKeys |-> 0]
    /\ swPc = [r \in RlReqs |-> "idle"]
    /\ swId = [r \in RlReqs |-> ""]
    /\ now = [r \in RlReqs |-> 0]
    /\ count = [r \in RlReqs |-> 0]
    /\ swRes = [r \in RlReqs |-> NoSwRes]
    /\ swFault = [r \in RlReqs |-> FALSE]

\* The sliding-window limiter is not in use.
SwOff == SwStartState(1, 1)

\* The parts after the fourth are not in use.
LaterOff == RtOff /\ RfOff /\ BsOff /\ GsOff /\ SgOff

Init == IdemInit /\ KeyOff /\ RlOff /\ SwOff /\ LaterOff

KeyOf(r) == redisKey(req[r].method, req[r].keyHeader, req[r].originalUrl)

\* redis.get(key): null when the key is absent or has expired
RedisGet(k) == IF store[k] = NoRecord THEN <<"nil">> ELSE store[k].val
IsNull(v) == v = <<"nil">>

processingMarker == JSONstringify([processing |-> TRUE])

\* ------------------------------------------------ the closures of a request
\* res.write / res.end overrides (lines 164-172): `if (chunk) chunks.push(...)`
PushChunk(cs, c) == IF Truthy(c) THEN Append(cs, c.bytes) ELSE cs

\* res.send override, lines 175-179: the push made before originalSend runs
PushBody(cs, b) == IF Truthy(b) THEN Append(cs, b.bytes) ELSE cs

\* The object persisted after sending (lines 182-192); ts is never read back and
\* is left out, the record's age is what `left` counts.
StoredResponse(cs, statusCode, contentType) ==
    [processed |-> TRUE,
     status    |-> IF statusCode = 0 THEN 200 ELSE statusCode,
     headers   |-> ("content-type" :> contentType),
     body      |-> toBase64(BufferConcat(cs))]

\* Replay of a stored response (lines 132-138): res.status, res.set of every
\* stored header, res.send(Buffer) (which types an untyped response as binary).
Replay(parsed) ==
    LET body == fromBase64(parsed.body)
        set  == IF "headers" \in DOMAIN parsed THEN parsed.headers["content-type"] ELSE NoType
    IN  [kind |-> "replay", status |-> parsed.status,
         ctype |-> SendType(set, [kind |-> "buffer", bytes |-> body]),
         body |-> body, error |-> ""]

Live(statusCode, contentType, bytes) ==
    [kind |-> "live", status |-> statusCode, ctype |-> contentType,
     body |-> bytes, error |-> ""]

\* What one call of the overridden res.send leaves behind (lines 174-199), for a
\* body that is not a plain object: the push of the override, then Express's
\* send, which types the response and hands the chunk to this.end, that is to
\* the overridden res.end with its own push, then the record to persist.
SendPlain(cs, statusCode, contentType, b) ==
    LET ct  == SendType(contentType, b)
        cs2 == PushChunk(PushBody(cs, b), b)
    IN  [chunks |-> cs2, ctype |-> ct,
         sets |-> <<JSONstringify(StoredResponse(cs2, statusCode, ct))>>]

\* res.send(body) on a hooked response.  For a plain object Express's send
\* returns this.json(body), which serialises it and calls this.send(string):
\* the override runs a second time inside the first.
SendHooked(cs, statusCode, contentType, b) ==
    IF b.kind = "object"
    THEN LET inner == SendPlain(PushBody(cs, b), statusCode,
                                SendType(contentType, b),
                                [kind |-> "string", bytes |-> b.bytes])
         IN  [chunks |-> inner.chunks, ctype |-> inner.ctype,
              sets |-> Append(inner.sets,
                              JSONstringify(StoredResponse(inner.chunks, statusCode,
                                                           inner.ctype)))]
    ELSE SendPlain(cs, statusCode, contentType, b)

\* ---------------------------------------------------------------- actions
\* (mutant) the check of the method is left out
BypassTokenOnly(a) == a.keyHeader = ""

\* lines 119-122: the method is not one of `methods`, or the header is missing
Bypass(a) == a.method \notin methods \/ a.keyHeader = ""

\* (mutant) the check of parsed.processing is left out
SeenNoProcessing(cached) ==
    IF IsNull(cached) THEN "nothing"
    ELSE IF Flag(JSONparse(cached), "processed") THEN "processed"
    ELSE "nothing"

\* lines 128-145: what the middleware makes of the value it read
Seen(cached) ==
    IF IsNull(cached) THEN "nothing"
    ELSE IF Flag(JSONparse(cached), "processed") THEN "processed"
    ELSE IF Flag(JSONparse(cached), "processing") THEN "processing"
    ELSE "nothing"

\* (mutant) a plain SET, without NX
SetAlways(k) == TRUE

\* SET ... NX: the value is written only if the key holds none
SetNX(k) == store[k] = NoRecord

\* (mutant) the marker is kept as long as a stored response
MarkerExTtl == ttl

\* line 150: the EX argument of the processing marker
MarkerEx == processingTtl

\* A request arrives and enters the middleware: lines 119-127 up to the first
\* await.  It takes the place of a request that is over.
Start(r) ==
    /\ pc[r] \in {"idle", "done"}
    /\ arrived < MaxArrivals
    /\ arrived' = arrived + 1
    /\ \A q \in Reqs : q < r => pc[q] \notin {"idle", "done"}   \* lowest free place
    /\ \E a \in Arrivals :
         /\ req' = [req EXCEPT ![r] = a]
         /\ IF Bypass(a)
            THEN /\ nextCalls' = [nextCalls EXCEPT ![r] = <<"ok">>]
                 /\ pc' = [pc EXCEPT ![r] = "handler"]
                 /\ ops' = [ops EXCEPT ![r] = <<>>]
                 /\ late' = [late EXCEPT ![r] = FALSE]
            ELSE /\ pc' = [pc EXCEPT ![r] = "get"]
                 /\ ops' = [ops EXCEPT ![r] = <<"get">>]
                 /\ nextCalls' = [nextCalls EXCEPT ![r] = <<>>]
                 /\ late' = [late EXCEPT ![r] =
                       \E q \in Reqs : pc[q] = "done" /\ fresh[q] /\ req[q] = a]
    /\ hooked' = [hooked EXCEPT ![r] = FALSE]
    /\ chunks' = [chunks EXCEPT ![r] = <<>>]
    /\ resp' = [resp EXCEPT ![r] = NoResp]
    /\ fresh' = [fresh EXCEPT ![r] = FALSE]
    /\ store' = [k \in Keys |-> IF store[k].owner = r
                                THEN [store[k] EXCEPT !.owner = 0] ELSE store[k]]
    /\ UNCHANGED <<ttl, processingTtl, pending, claimLeft, notIdem>>

\* (mutant) the failure is swallowed and the request goes on to the handler
EnterCatchFailOpen(r) ==
    /\ pc' = [pc EXCEPT ![r] = "handler"]
    /\ ops' = [ops EXCEPT ![r] = Append(@, "get")]

\* The catch block is entered (lines 203-209): it issues its own redis.get.
EnterCatch(r) ==
    /\ pc' = [pc EXCEPT ![r] = "catchGet"]
    /\ ops' = [ops EXCEPT ![r] = Append(@, "get")]

\* `await redis.get(redisKey)` returns or throws: lines 127-150.
Get(r) ==
    /\ pc[r] = "get"
    /\ LET cached == RedisGet(KeyOf(r))
           parsed == JSONparse(cached)
       IN  \/ /\ EnterCatch(r)                       \* the command failed
              /\ UNCHANGED <<resp, nextCalls>>
           \/ /\ Seen(cached) = "processed"
              /\ resp' = [resp EXCEPT ![r] = Replay(parsed)]
              /\ pc' = [pc EXCEPT ![r] = "done"]
              /\ UNCHANGED <<ops, nextCalls>>
           \/ /\ Seen(cached) = "processing"
              /\ resp' = [resp EXCEPT ![r] = ConflictResp]
              /\ pc' = [pc EXCEPT ![r] = "done"]
              /\ UNCHANGED <<ops, nextCalls>>
           \/ /\ Seen(cached) = "nothing"
              /\ pc' = [pc EXCEPT ![r] = "claim"]
              /\ ops' = [ops EXCEPT ![r] = Append(@, "setnx")]
              /\ UNCHANGED <<resp, nextCalls>>
    /\ UNCHANGED <<ttl, processingTtl, store, req, hooked, chunks, pending,
                   fresh, late, arrived, claimLeft, notIdem>>

\* `await redis.set(redisKey, processingMarker, 'NX', 'EX', processingTtl)`
\* returns or throws: lines 150-202.
Claim(r) ==
    /\ pc[r] = "claim"
    /\ LET k == KeyOf(r)
           marker == [val |-> processingMarker, left |-> MarkerEx, owner |-> r]
       IN  \/ /\ EnterCatch(r)                       \* failed before reaching the store
              /\ UNCHANGED <<store, hooked, chunks, resp, nextCalls, claimLeft>>
           \/ /\ SetNX(k)                            \* applied, but the reply was lost
              /\ store' = [store EXCEPT ![k] = marker]
              /\ EnterCatch(r)
              /\ UNCHANGED <<hooked, chunks, resp, nextCalls, claimLeft>>
           \/ /\ SetNX(k)                            \* setOk
              /\ store' = [store EXCEPT ![k] = marker]
              /\ hooked' = [hooked EXCEPT ![r] = TRUE]
              /\ chunks' = [chunks EXCEPT ![r] = <<>>]
              /\ nextCalls' = [nextCalls EXCEPT ![r] = Append(@, "ok")]
              /\ pc' = [pc EXCEPT ![r] = "handler"]
              /\ claimLeft' = [claimLeft EXCEPT ![r] = processingTtl]
              /\ UNCHANGED <<resp, ops>>
           \/ /\ ~SetNX(k)                           \* !setOk
              /\ resp' = [resp EXCEPT ![r] = ConflictResp]
              /\ pc' = [pc EXCEPT ![r] = "done"]
              /\ UNCHANGED <<store, hooked, chunks, nextCalls, ops, claimLeft>>
    /\ UNCHANGED <<ttl, processingTtl, req, pending, fresh, late, arrived, notIdem>>

\* The catch's `await redis.get(redisKey)` returns or throws: lines 209-221.
CatchGet(r) ==
    /\ pc[r] = "catchGet"
    /\ LET val == RedisGet(KeyOf(r))
       IN  \/ /\ ~IsNull(val) /\ Flag(JSONparse(val), "processing")
              /\ pc' = [pc EXCEPT ![r] = "catchDel"]
              /\ ops' = [ops EXCEPT ![r] = Append(@, "del")]
              /\ nextCalls' = nextCalls
           \/ /\ ~(~IsNull(val) /\ Flag(JSONparse(val), "processing"))
              /\ pc' = [pc EXCEPT ![r] = "done"]
              /\ nextCalls' = [nextCalls EXCEPT ![r] = Append(@, "err")]
              /\ ops' = ops
           \/ /\ pc' = [pc EXCEPT ![r] = "done"]     \* failed: the inner catch ignores it
              /\ nextCalls' = [nextCalls EXCEPT ![r] = Append(@, "err")]
              /\ ops' = ops
    /\ UNCHANGED <<ttl, processingTtl, store, req, hooked, chunks, pending, resp,
                   fresh, late, arrived, claimLeft, notIdem>>

\* The catch's `await redis.del(redisKey)` returns or throws: lines 214-221.
CatchDel(r) ==
    /\ pc[r] = "catchDel"
    /\ \/ store' = [store EXCEPT ![KeyOf(r)] = NoRecord]
       \/ store' = store                             \* failed: ignored
    /\ pc' = [pc EXCEPT ![r] = "done"]
    /\ nextCalls' = [nextCalls EXCEPT ![r] = Append(@, "err")]
    /\ UNCHANGED <<ttl, processingTtl, req, hooked, chunks, pending, resp, ops,
                   fresh, late, arrived, claimLeft, notIdem>>

\* The handler's response has gone out to the client.
Sent(r) ==
    /\ fresh' = [fresh EXCEPT ![r] = hooked[r]]
    /\ claimLeft' = [claimLeft EXCEPT ![r] = 0]

\* The handler answers with res.status(st).send(b), or res.status(st).json(b)
\* when asJson: res.json types the response as JSON and calls this.send(string).
Respond(r, st, b, asJson) ==
    LET arg == IF asJson THEN [kind |-> "string", bytes |-> b.bytes] ELSE b
        ct0 == IF asJson THEN JsonType ELSE NoType
        out == SendHooked(chunks[r], st, ct0, arg)
        live == Live(st, SendType(ct0, b), b.bytes)
    IN  /\ pc[r] = "handler"
        /\ resp[r].kind = "none"
        /\ resp' = [resp EXCEPT ![r] = live]
        /\ Sent(r)
        /\ IF hooked[r]
           THEN /\ chunks' = [chunks EXCEPT ![r] = out.chunks]
                /\ pending' = [pending EXCEPT ![r] = out.sets]
                /\ ops' = [ops EXCEPT ![r] = @ \o [i \in 1..Len(out.sets) |-> "set"]]
                /\ pc' = [pc EXCEPT ![r] = "commit"]
           ELSE /\ pc' = [pc EXCEPT ![r] = "done"]
                /\ UNCHANGED <<chunks, pending, ops>>
        /\ UNCHANGED <<ttl, processingTtl, store, req, hooked, nextCalls, late, arrived,
                       notIdem>>

HandlerSend(r) == \E a \in SendArgs : Respond(r, a[1], a[2], FALSE)

HandlerJson(r) == \E a \in JsonArgs : Respond(r, a[1], a[2], TRUE)

\* The handler streams: res.status(st); res.write(chunk)
HandlerWrite(r) ==
    /\ pc[r] = "handler"
    /\ resp[r].kind = "none"
    /\ \E a \in WriteArgs :
         /\ resp' = [resp EXCEPT ![r] =
                        [Live(a[1], NoType, a[2].bytes) EXCEPT !.kind = "streaming"]]
         /\ chunks' = [chunks EXCEPT ![r] = IF hooked[r] THEN PushChunk(@, a[2]) ELSE @]
    /\ UNCHANGED <<ttl, processingTtl, store, pc, req, hooked, pending, nextCalls, ops,
                   fresh, late, arrived, claimLeft, notIdem>>

\* The handler finishes with res.end(chunk) or res.end(): nothing is persisted.
HandlerEnd(r) ==
    /\ pc[r] = "handler"
    /\ resp[r].kind \in {"none", "streaming"}
    /\ \E a \in EndArgs :
         LET st == IF resp[r].kind = "streaming" THEN resp[r].status ELSE a[1]
             live == Live(st, NoType, resp[r].body \o a[2].bytes)
         IN  /\ resp' = [resp EXCEPT ![r] = live]
             /\ Sent(r)
             /\ chunks' = [chunks EXCEPT ![r] = IF hooked[r] THEN PushChunk(@, a[2]) ELSE @]
    /\ pc' = [pc EXCEPT ![r] = "done"]
    /\ UNCHANGED <<ttl, processingTtl, store, req, hooked, pending, nextCalls, ops,
                   late, arrived, notIdem>>

\* The handler throws or calls next(err) itself: Express answers 500; the
\* middleware's catch is not on that path.
HandlerFail(r) ==
    /\ pc[r] = "handler"
    /\ resp[r].kind = "none"
    /\ resp' = [resp EXCEPT ![r] = [NoResp EXCEPT !.kind = "error", !.status = 500]]
    /\ pc' = [pc EXCEPT ![r] = "done"]
    /\ claimLeft' = [claimLeft EXCEPT ![r] = 0]
    /\ UNCHANGED <<ttl, processingTtl, store, req, hooked, chunks, pending, nextCalls,
                   ops, fresh, late, arrived, notIdem>>

\* A `redis.set(redisKey, JSON.stringify(store), 'EX', ttl)` issued by res.send
\* reaches the store, or fails and is logged by its .catch (lines 194-197).
Commit(r) ==
    /\ pc[r] = "commit"
    /\ \/ store' = [store EXCEPT ![KeyOf(r)] =
                       [val |-> Head(pending[r]), left |-> ttl, owner |-> r]]
       \/ store' = store
    /\ pending' = [pending EXCEPT ![r] = Tail(@)]
    /\ pc' = [pc EXCEPT ![r] = IF Len(pending[r]) = 1 THEN "done" ELSE "commit"]
    /\ UNCHANGED <<ttl, processingTtl, req, hooked, chunks, resp, nextCalls, ops,
                   fresh, late, arrived, claimLeft, notIdem>>

\* One second passes: Redis expires what has no time left.
Tick ==
    /\ store' = [k \in Keys |->
                   IF store[k] = NoRecord \/ store[k].left = 1 THEN NoRecord
                   ELSE [store[k] EXCEPT !.left = @ - 1]]
    /\ fresh' = [r \in Reqs |-> FALSE]
    /\ late' = [r \in Reqs |-> FALSE]
    /\ claimLeft' = [r \in Reqs |-> IF claimLeft[r] = 0 THEN 0 ELSE claimLeft[r] - 1]
    /\ UNCHANGED <<ttl, processingTtl, pc, req, hooked, chunks, pending, resp,
                   nextCalls, ops, arrived, notIdem>>

Step(r) ==
    \/ Start(r) \/ Get(r) \/ Claim(r) \/ CatchGet(r) \/ CatchDel(r)
    \/ HandlerSend(r) \/ HandlerJson(r) \/ HandlerWrite(r) \/ HandlerEnd(r)
    \/ HandlerFail(r) \/ Commit(r)

Next == (\E r \in Reqs : Step(r)) \/ Tick

Spec == Init /\ [][Next]_vars

\* ------------------------------------------------- part 2: key derivation
\* Requests that pass the checks of lines 119-122: a method of `methods`, a
\* header value that is not empty, a request target.  A header value and a
\* path may both contain ':'.
KeyTokens == {"a", "b", "a:/x"}
KeyUrls == {"/x", "/y", "/x:/y"}
KeyInputs ==
    {[method |-> m, keyHeader |-> t, originalUrl |-> u] :
        m \in {"POST", "PUT"}, t \in KeyTokens, u \in KeyUrls}

KeyInit ==
    /\ IdemOff /\ RlOff /\ SwOff /\ LaterOff
    /\ kin \in KeyInputs \X KeyInputs /\ kout = <<>>

\* line 124, for both requests
Derive ==
    /\ kout = <<>>
    /\ kout' = [i \in {1, 2} |->
                  redisKey(kin[i].method, kin[i].keyHeader, kin[i].originalUrl)]
    /\ UNCHANGED <<kin, notKey>>

\* a retry of both requests: the keys are derived again
DeriveAgain ==
    /\ kout # <<>>
    /\ kout' = [i \in {1, 2} |->
                  redisKey(kin[i].method, kin[i].keyHeader, kin[i].originalUrl)]
    /\ UNCHANGED <<kin, notKey>>

KeyNext == Derive \/ DeriveAgain

KeySpec == KeyInit /\ [][KeyNext]_vars

\* --------------------------------- part 3: the fixed-window rate limiter
RlInit ==
    /\ IdemOff /\ KeyOff /\ SwOff /\ LaterOff
    /\ \E w \in 1..MaxWindow, m \in 1..MaxMax : RlStartState(w, m)

\* (mutant) the limit is compared one too high
OverLimitLate(cur) == cur > max + 1

\* line 42: `current > max`
OverLimit(cur) == cur > max

\* lines 35-51: the headers, then 429 or next()
Decide(r, cur) ==
    LET remaining == IF max - cur > 0 THEN max - cur ELSE 0
    IN  res' = [res EXCEPT ![r] =
                  IF OverLimit(cur)
                  THEN [status |-> 429, next |-> FALSE, remaining |-> remaining,
                        retryAfter |-> window]
                  ELSE [status |-> 0, next |-> TRUE, remaining |-> remaining,
                        retryAfter |-> 0]]

\* lines 52-56: a Redis command rejected, the request is let through
FailOpen(r) ==
    /\ res' = [res EXCEPT ![r] = [NoRes EXCEPT !.next = TRUE]]
    /\ rlPc' = [rlPc EXCEPT ![r] = "done"]
    /\ rlFault' = TRUE

\* A request reaches the limiter: lines 24-29 up to the await of INCR.
\* The requests arrive in the order of their numbers.
RlStart(r) ==
    /\ rlPc[r] = "idle"
    /\ \A q \in RlReqs : q < r => rlPc[q] # "idle"
    /\ \E i \in Ips : identifier' = [identifier EXCEPT ![r] = i]
    /\ rlPc' = [rlPc EXCEPT ![r] = "incr"]
    /\ UNCHANGED <<window, max, counter, expiry, current, res, epoch, counted,
                   rlFault, notRl>>

\* `await redisClient.incr(key)` returns or throws: lines 29-51.
Incr(r) ==
    /\ rlPc[r] = "incr"
    /\ LET key == rlKey(identifier[r])
           cur == counter[key] + 1
       IN  \/ /\ counter' = [counter EXCEPT ![key] = cur]
              /\ current' = [current EXCEPT ![r] = cur]
              /\ counted' = [counted EXCEPT ![r] = epoch[key]]
              /\ IF cur = 1
                 THEN /\ rlPc' = [rlPc EXCEPT ![r] = "expire"]
                      /\ res' = res
                 ELSE /\ rlPc' = [rlPc EXCEPT ![r] = "done"]
                      /\ Decide(r, cur)
              /\ rlFault' = rlFault
           \/ /\ FailOpen(r)                        \* the command failed
              /\ UNCHANGED <<counter, current, counted>>
    /\ UNCHANGED <<window, max, expiry, identifier, epoch, notRl>>

\* `await redisClient.expire(key, window)` returns or throws: lines 32-51.
Expire(r) ==
    /\ rlPc[r] = "expire"
    /\ LET key == rlKey(identifier[r])
       IN  \/ /\ expiry' = [expiry EXCEPT ![key] = IF counter[key] = 0 THEN 0 ELSE window]
              /\ rlPc' = [rlPc EXCEPT ![r] = "done"]
              /\ Decide(r, current[r])
              /\ rlFault' = rlFault
           \/ /\ FailOpen(r)                        \* the command failed
              /\ expiry' = expiry
    /\ UNCHANGED <<window, max, counter, identifier, current, epoch, counted,
                   notRl>>

\* One second passes: Redis expires the keys whose time is used up.
RlTick ==
    /\ \E k \in RlKeys : expiry[k] > 0
    /\ expiry' = [k \in RlKeys |-> IF expiry[k] = 0 THEN 0 ELSE expiry[k] - 1]
    /\ counter' = [k \in RlKeys |-> IF expiry[k] = 1 THEN 0 ELSE counter[k]]
    /\ epoch' = [k \in RlKeys |-> IF expiry[k] = 1 THEN epoch[k] + 1 ELSE epoch[k]]
    /\ UNCHANGED <<window, max, rlPc, identifier, current, res, counted, rlFault,
                   notRl>>

RlNext == (\E r \in RlReqs : RlStart(r) \/ Incr(r) \/ Expire(r)) \/ RlTick

RlSpec == RlInit /\ [][RlNext]_vars

\* ------------------------------- part 4: the sliding-window rate limiter
SwInit ==
    /\ IdemOff /\ KeyOff /\ RlOff /\ LaterOff
    /\ \E w \in 1..MaxWindow, m \in 1..MaxMax : SwStartState(w, m)

windowMs == windowSize * 1000          \* line 9

\* Math.ceil(a / b) for b > 0
Ceil(a, b) == -((-a) \div b)

\* line 35: Math.max(1, Math.ceil((windowMs - (now - oldestScore)) / 1000))
retryAfterSec(nowMs, oldestScore) ==
    LET c == Ceil(windowMs - (nowMs - oldestScore), 1000)
    IN  IF c > 1 THEN c ELSE 1

\* ZRANGE key 0 0 WITHSCORES: the scores of the first element, none if empty
Oldest(k) == {e.score : e \in {x \in zset[k] : \A y \in zset[k] : x.score <= y.score}}

\* lines 48-51: a Redis call rejected, the request is let through
SwFailOpen(r) ==
    /\ swRes' = [swRes EXCEPT ![r] = [NoSwRes EXCEPT !.next = TRUE, !.at = clock]]
    /\ swFault' = [swFault EXCEPT ![r] = TRUE]

\* The middleware returns: the request is over and its locals are gone.
SwReturn(r) ==
    /\ swPc' = [swPc EXCEPT ![r] = "done"]
    /\ now' = [now EXCEPT ![r] = 0]
    /\ count' = [count EXCEPT ![r] = 0]

\* A request reaches the limiter: lines 13-25, the pipeline is sent.  The
\* member is `${now}-${random}`: the request's own, written as its number.
\* The requests arrive in the order of their numbers, and the first of them
\* comes from the first address.
SwStart(r) ==
    /\ swPc[r] = "idle"
    /\ \A q \in RlReqs : q < r => swPc[q] # "idle"
    /\ \E i \in Ips :
         /\ i = "1.1.1.1" \/ \E q \in RlReqs : swId[q] = "1.1.1.1"
         /\ swId' = [swId EXCEPT ![r] = i]
    /\ now' = [now EXCEPT ![r] = clock]
    /\ swPc' = [swPc EXCEPT ![r] = "zadd"]
    /\ UNCHANGED <<windowSize, maxSw, clock, zset, deadline, count, swRes, swFault,
                   notSw>>

\* pipeline.zadd(key, now, member), line 21; a key that is created has no TTL.
\* A command that Redis refuses (a write refused for lack of memory, say) puts
\* an error in its own entry of the pipeline's reply and exec still resolves:
\* the code reads entry 2 only (lines 28-29).
Zadd(r) ==
    /\ swPc[r] = "zadd"
    /\ \/ /\ zset' = [zset EXCEPT ![swKey(swId[r])] =
                        @ \cup {[member |-> r, score |-> now[r]]}]
          /\ swPc' = [swPc EXCEPT ![r] = "zrem"]
          /\ UNCHANGED <<swRes, swFault, now, count>>
       \/ /\ swFault' = [swFault EXCEPT ![r] = TRUE]   \* ZADD refused, exec goes on
          /\ swPc' = [swPc EXCEPT ![r] = "zrem"]
          /\ UNCHANGED <<zset, swRes, now, count>>
       \/ /\ SwFailOpen(r) /\ SwReturn(r)           \* exec rejected: nothing was sent
          /\ zset' = zset
    /\ UNCHANGED <<windowSize, maxSw, clock, deadline, swId, notSw>>

\* pipeline.zremrangebyscore(key, 0, windowStart), line 22; Redis deletes a key
\* whose set has become empty.  A pipeline whose exec rejects is taken at its
\* two ends: nothing was executed (Zadd) or everything was (SwExpire).
Zrem(r) ==
    /\ swPc[r] = "zrem"
    /\ LET k == swKey(swId[r])
           windowStart == now[r] - windowMs
           kept == {e \in zset[k] : ~(0 <= e.score /\ e.score <= windowStart)}
       IN  /\ zset' = [zset EXCEPT ![k] = kept]
           /\ deadline' = [deadline EXCEPT ![k] = IF kept = {} THEN 0 ELSE @]
           /\ swPc' = [swPc EXCEPT ![r] = "zcard"]
    /\ UNCHANGED <<windowSize, maxSw, clock, swId, now, count, swRes, swFault,
                   notSw>>

\* pipeline.zcard(key), line 23
Zcard(r) ==
    /\ swPc[r] = "zcard"
    /\ count' = [count EXCEPT ![r] = Cardinality(zset[swKey(swId[r])])]
    /\ swPc' = [swPc EXCEPT ![r] = "expire"]
    /\ UNCHANGED <<windowSize, maxSw, clock, zset, deadline, swId, now, swRes, swFault,
                   notSw>>

\* line 31: `count > max`
SwOverLimit(c) == c > maxSw

\* pipeline.expire(key, windowSize + 1), line 24, then the await of line 25
\* returns: lines 27-47
SwExpire(r) ==
    /\ swPc[r] = "expire"
    /\ LET k == swKey(swId[r])
           remaining == IF maxSw - count[r] > 0 THEN maxSw - count[r] ELSE 0
       IN  \/ /\ deadline' = [deadline EXCEPT ![k] =
                       IF zset[k] = {} THEN 0 ELSE clock + (windowSize + 1) * 1000]
              /\ IF SwOverLimit(count[r])
                 THEN /\ swPc' = [swPc EXCEPT ![r] = "zrange"]
                      /\ UNCHANGED <<swRes, now, count>>
                 ELSE /\ SwReturn(r)
                      /\ swRes' = [swRes EXCEPT ![r] =
                            [NoSwRes EXCEPT !.next = TRUE, !.remaining = remaining,
                                            !.at = clock]]
              /\ swFault' = swFault
           \/ /\ deadline' = [deadline EXCEPT ![k] =    \* executed, the reply was lost
                       IF zset[k] = {} THEN 0 ELSE clock + (windowSize + 1) * 1000]
              /\ SwFailOpen(r) /\ SwReturn(r)
    /\ UNCHANGED <<windowSize, maxSw, clock, zset, swId, notSw>>

\* `await redis.zrange(key, 0, 0, 'WITHSCORES')` returns or throws: lines 33-41
Zrange(r) ==
    /\ swPc[r] = "zrange"
    /\ LET oldest == Oldest(swKey(swId[r]))
       IN  \/ /\ \E oldestScore \in (IF oldest = {} THEN {now[r]} ELSE oldest) :
                   swRes' = [swRes EXCEPT ![r] =
                       [NoSwRes EXCEPT !.status = 429,
                                       !.retryAfter = retryAfterSec(now[r], oldestScore)]]
              /\ swFault' = swFault
           \/ SwFailOpen(r)
    /\ SwReturn(r)
    /\ UNCHANGED <<windowSize, maxSw, clock, zset, deadline, swId,
                   notSw>>

\* Half a second passes: Redis expires the keys whose time has come.
SwTick ==
    /\ clock < MaxClock * TickMs
    /\ clock' = clock + TickMs
    /\ zset' = [k \in SwKeys |->
                  IF deadline[k] # 0 /\ deadline[k] <= clock' THEN {} ELSE zset[k]]
    /\ deadline' = [k \in SwKeys |->
                  IF deadline[k] # 0 /\ deadline[k] <= clock' THEN 0 ELSE deadline[k]]
    /\ UNCHANGED <<windowSize, maxSw, swPc, swId, now, count, swRes, swFault,
                   notSw>>

SwNext ==
    \/ \E r \in RlReqs : \/ SwStart(r) \/ Zadd(r) \/ Zrem(r) \/ Zcard(r)
                          \/ SwExpire(r) \/ Zrange(r)
    \/ SwTick

SwSpec == SwInit /\ [][SwNext]_vars

\* ---------------------------------------------- part 5: retryWithBackoff
RtOptions ==
    [retries : 0..MaxRetries, minDelay : 0..MaxMinDelay, maxDelay : 0..MaxMaxDelay,
     factor : 1..MaxFactor, jitter : BOOLEAN,
     shouldRetry : {"default", "custom"},        \* custom: (err) => err.retryable
     onRetry : {"none", "returns", "throws"},    \* throws: may throw
     signal : BOOLEAN]                           \* an AbortSignal is given

\* The parts 1 to 4 are not in use.
FirstOff == IdemOff /\ KeyOff /\ RlOff /\ SwOff

RtInit ==
    /\ FirstOff /\ RfOff /\ BsOff /\ GsOff /\ SgOff
    /\ \E o \in RtOptions : RtStartState(o)

Min(a, b) == IF a < b THEN a ELSE b

RECURSIVE Pow(_, _)
Pow(b, e) == IF e = 0 THEN 1 ELSE b * Pow(b, e - 1)

\* line 36, the default, or the predicate given
shouldRetry(err) == options.shouldRetry = "default" \/ err.retryable

\* (mutant) the error is not asked about
willRetryAlways(err) == attempt < options.retries

\* line 52
willRetry(err) == attempt < options.retries /\ shouldRetry(err)

\* (mutant) the cap is left out
BackoffUncapped(k) == options.minDelay * Pow(options.factor, k - 1)

\* line 56, after attempt k
Backoff(k) == Min(options.minDelay * Pow(options.factor, k - 1), options.maxDelay)

\* lines 56-60: the values `next` may take after attempt k; Math.random() is
\* n / RandomSteps and Math.floor of a quotient of naturals is \div
Nexts(k) ==
    IF options.jitter
    THEN {(n * Backoff(k)) \div RandomSteps : n \in 0..(RandomSteps - 1)}
    ELSE {Backoff(k)}

\* (mutant) delay sets its timer whatever the signal says
DelayAbortedNever == FALSE

\* line 6, signal?.aborted
DelayAborted == options.signal /\ aborted

\* the timer that is running
Timer == delays[Len(delays)]

\* (mutant) the timer fires at once
TimerDueAtOnce == TRUE

\* setTimeout(() => resolve(), ms), line 7: not before ms have passed
TimerDue == Timer.elapsed >= Timer.ms

\* the promise of the call settles
Settle(kind, e) == rtPc' = "done" /\ outcome' = [kind |-> kind, err |-> e]

\* line 44
LoopGuard == attempt < options.retries

\* lines 44-49 and 72: the head of the loop up to the call of fn, or the throw
\* after the loop
LoopHead ==
    IF LoopGuard
    THEN IF options.signal /\ aborted                                 \* line 45
         THEN Settle("rejected", AbortedErr) /\ UNCHANGED <<attempt, calls>>
         ELSE /\ attempt' = attempt + 1                               \* line 47
              /\ calls' = Append(calls, attempt + 1)                  \* line 49
              /\ rtPc' = "fn"
              /\ UNCHANGED outcome
    ELSE Settle("rejected", lastError) /\ UNCHANGED <<attempt, calls>>  \* line 72

\* retryWithBackoff(fn, options) is called, lines 29-49
RtCall ==
    /\ rtPc = "call"
    /\ LoopHead
    /\ UNCHANGED <<options, lastError, aborted, errors, onRetryCalls, delays,
                   abortAt, notRt>>

\* fn resolves: `return await fn(attempt)`, line 49
FnResolves ==
    /\ rtPc = "fn"
    /\ Settle("resolved", Undefined)
    /\ UNCHANGED <<options, attempt, lastError, aborted, calls, errors,
                   onRetryCalls, delays, abortAt, notRt>>

\* fn rejects: the catch of lines 50-69 up to the timer being set, or the break
\* and the throw of line 72
FnRejects ==
    /\ rtPc = "fn"
    /\ \E b \in (IF options.shouldRetry = "default" THEN {TRUE} ELSE BOOLEAN) :
         LET err == Err("fn", attempt, b) IN
         /\ lastError' = err                                          \* line 51
         /\ errors' = Append(errors, err)
         /\ IF ~willRetry(err)
            THEN /\ Settle("rejected", err)                           \* lines 53, 72
                 /\ UNCHANGED <<onRetryCalls, delays>>
            ELSE \E nx \in Nexts(attempt),
                    thrown \in (IF options.onRetry = "throws" THEN BOOLEAN ELSE {FALSE}) :
                   /\ onRetryCalls' =                                 \* line 63
                          IF options.onRetry = "none" THEN onRetryCalls
                          ELSE Append(onRetryCalls, [attempt |-> attempt, next |-> nx])
                   /\ IF thrown                                       \* lines 65-67
                      THEN /\ Settle("rejected", Err("onRetry", attempt, FALSE))
                           /\ UNCHANGED delays
                      ELSE IF DelayAborted                            \* line 6
                      THEN /\ Settle("rejected", AbortedErr)
                           /\ UNCHANGED delays
                      ELSE /\ rtPc' = "timer"                         \* line 7
                           /\ delays' = Append(delays,
                                  [after |-> attempt, ms |-> nx, elapsed |-> 0,
                                   fired |-> FALSE])
                           /\ UNCHANGED outcome
    /\ UNCHANGED <<options, attempt, aborted, calls, abortAt, notRt>>

\* a millisecond passes while the timer runs
RtTick ==
    /\ rtPc = "timer"
    /\ Timer.elapsed < Timer.ms
    /\ delays' = [delays EXCEPT ![Len(delays)].elapsed = @ + 1]
    /\ UNCHANGED <<options, rtPc, attempt, lastError, aborted, outcome, calls,
                   errors, onRetryCalls, abortAt, notRt>>

\* the timer fires: delay resolves and the loop goes round, lines 7, 64, 44-49
TimerFires ==
    /\ rtPc = "timer"
    /\ TimerDue
    /\ delays' = [delays EXCEPT ![Len(delays)].fired = TRUE]
    /\ LoopHead
    /\ UNCHANGED <<options, lastError, aborted, errors, onRetryCalls, abortAt,
                   notRt>>

\* the signal is aborted before the call has settled; while delay waits, its
\* listener clears the timer and rejects (lines 8-11), which line 67 throws on
Abort ==
    /\ options.signal
    /\ ~aborted
    /\ rtPc # "done"
    /\ aborted' = TRUE
    /\ abortAt' = [pc |-> rtPc, calls |-> Len(calls)]
    /\ IF rtPc = "timer"
       THEN Settle("rejected", AbortedErr)
       ELSE UNCHANGED <<rtPc, outcome>>
    /\ UNCHANGED <<options, attempt, lastError, calls, errors, onRetryCalls,
                   delays, notRt>>

RtNext == RtCall \/ FnResolves \/ FnRejects \/ RtTick \/ TimerFires \/ Abort

RtSpec == RtInit /\ [][RtNext]_vars

\* --------------------------------------- part 6: refresh-token rotation
RfInit == FirstOff /\ RtOff /\ RfOff /\ BsOff /\ GsOff /\ SgOff

\* POST /refresh with a refresh token that was signed earlier and verifies
\* (lines 50-56); the redis.get of line 59 is then on its way
RfArrive(r) ==
    /\ rfPc[r] = "idle"
    /\ \E t \in 1..issued : presented' = [presented EXCEPT ![r] = t]
    /\ rfPc' = [rfPc EXCEPT ![r] = "get"]
    /\ UNCHANGED <<storedJti, issued, rfStatus, notRf>>

\* redis.get replies, lines 59-66; or it fails, lines 72-73
RfGet(r) ==
    /\ rfPc[r] = "get"
    /\ \/ /\ storedJti = 0 \/ storedJti # presented[r]              \* line 60
          /\ rfStatus' = [rfStatus EXCEPT ![r] = 401]               \* line 62
          /\ rfPc' = [rfPc EXCEPT ![r] = "done"]
       \/ /\ ~(storedJti = 0 \/ storedJti # presented[r])
          /\ rfPc' = [rfPc EXCEPT ![r] = "sign"]                    \* line 67
          /\ UNCHANGED rfStatus
       \/ /\ rfStatus' = [rfStatus EXCEPT ![r] = 401]               \* line 73
          /\ rfPc' = [rfPc EXCEPT ![r] = "done"]
    /\ UNCHANGED <<storedJti, issued, presented, notRf>>

\* signRefreshToken: a new jti is drawn and stored (lines 24-27) and the
\* tokens are sent, line 71
RfSign(r) ==
    /\ rfPc[r] = "sign"
    /\ issued' = issued + 1
    /\ storedJti' = issued + 1
    /\ rfStatus' = [rfStatus EXCEPT ![r] = 200]
    /\ rfPc' = [rfPc EXCEPT ![r] = "done"]
    /\ UNCHANGED <<presented, notRf>>

RfNext == \E r \in RfCalls : RfArrive(r) \/ RfGet(r) \/ RfSign(r)

RfSpec == RfInit /\ [][RfNext]_vars

\* ----------------------------------------------- part 7: body-size guard
Digits == <<"0", "1", "2", "3", "4", "5", "6", "7", "8", "9">>

\* the values of the Content-Length header tried: absent, not a number, and
\* the numbers up to two above the largest limit
LenHeaders == {"", "abc"} \cup {Digits[i] : i \in 1..(MaxBytes + 3)}

\* Number(h) of line 12 is NaN: h is not a numeral
NumberIsNaN(h) == ~\E i \in 1..Len(Digits) : Digits[i] = h

\* Number(h) of line 12 for a numeral
NumberOf(h) == (CHOOSE i \in 1..Len(Digits) : Digits[i] = h) - 1

\* line 12: Number.isNaN(parsedLen), and parsedLen when it is a number
parsedIsNaN == lenHeader = "" \/ NumberIsNaN(lenHeader)
parsedLen == NumberOf(lenHeader)

BsInit ==
    /\ FirstOff /\ RtOff /\ RfOff /\ GsOff /\ SgOff
    /\ \E m \in 1..MaxBytes, h \in LenHeaders : BsStartState(m, h)

\* (mutant) a byte too many is let through
ExceedsLate(n) == n > maxBytes + 1

\* lines 13 and 34: `> maxBytes`
Exceeds(n) == n > maxBytes

\* the middleware is called, lines 9-21 and 66-68
BsCall ==
    /\ bsPc = "idle"
    /\ IF ~parsedIsNaN /\ Exceeds(parsedLen)                     \* line 13
       THEN /\ ended' = Append(ended, 413)                            \* lines 14-16
            /\ bsPc' = "done"
       ELSE /\ bsPc' = "listening"                                    \* lines 66-68
            /\ UNCHANGED ended
    /\ UNCHANGED <<maxBytes, lenHeader, received, finished, nexts, destroyed,
                   notBs>>

\* The body still to come: a message with a Content-Length has that many
\* bytes, a chunked one as many as the client sends.
Expected == IF ~parsedIsNaN THEN parsedLen ELSE maxBytes + MaxChunk

\* 'data' with a chunk of n bytes, lines 29-50
onData(n) ==
    /\ bsPc = "listening"
    /\ received + n <= Expected
    /\ received' = received + n                                       \* line 32
    /\ IF Exceeds(received + n) /\ ~finished                          \* line 34
       THEN /\ finished' = TRUE
            /\ bsPc' = "done"                                         \* cleanup()
            /\ ended' = Append(ended, 413)                            \* lines 39-41
            /\ destroyed' = TRUE                                      \* lines 46-48
       ELSE UNCHANGED <<finished, bsPc, ended, destroyed>>
    /\ UNCHANGED <<maxBytes, lenHeader, nexts, notBs>>

\* 'end', lines 52-57: the whole body has come
onEnd ==
    /\ bsPc = "listening"
    /\ ~parsedIsNaN => received = parsedLen
    /\ IF finished
       THEN UNCHANGED <<finished, bsPc, nexts>>                       \* line 53
       ELSE /\ finished' = TRUE
            /\ bsPc' = "done"                                         \* cleanup()
            /\ nexts' = Append(nexts, "ok")                           \* line 56
    /\ UNCHANGED <<maxBytes, lenHeader, received, ended, destroyed, notBs>>

\* 'error', lines 59-64: the client went away or sent a broken message
onError ==
    /\ bsPc = "listening"
    /\ IF finished
       THEN UNCHANGED <<finished, bsPc, nexts>>                       \* line 60
       ELSE /\ finished' = TRUE
            /\ bsPc' = "done"                                         \* cleanup()
            /\ nexts' = Append(nexts, "err")                          \* line 63
    /\ UNCHANGED <<maxBytes, lenHeader, received, ended, destroyed, notBs>>

BsNext == BsCall \/ (\E n \in 1..MaxChunk : onData(n)) \/ onEnd \/ onError

BsSpec == BsInit /\ [][BsNext]_vars

\* ------------------------------------- part 8: gracefulShutdown's server
GsInit ==
    /\ FirstOff /\ RtOff /\ RfOff /\ BsOff /\ SgOff
    /\ \E t \in 1..MaxTimeout : GsStartState(t * checkInterval)

\* a client connects, lines 44-47; a server that was closed accepts none
GsConnect ==
    /\ exitCode = -1 /\ ~isShuttingDown
    /\ sockets < MaxSockets
    /\ sockets' = sockets + 1
    /\ UNCHANGED <<FORCE_SHUTDOWN_TIMEOUT, inflightRequests, isShuttingDown, gsClock,
                   waitForInflight, nextCheck, forceExitAt, exitCode, destroyedAll,
                   sequences, notGs>>

\* a request arrives on an open connection, lines 15-26; during shutdown it is
\* answered 503 at once and not counted
GsRequest ==
    /\ exitCode = -1 /\ ~isShuttingDown
    /\ inflightRequests < sockets
    /\ inflightRequests' = inflightRequests + 1                       \* line 21
    /\ UNCHANGED <<FORCE_SHUTDOWN_TIMEOUT, isShuttingDown, sockets, gsClock,
                   waitForInflight, nextCheck, forceExitAt, exitCode, destroyedAll,
                   sequences, notGs>>

\* 'finish' of a response, lines 22-24
GsFinish ==
    /\ exitCode = -1
    /\ inflightRequests > 0
    /\ inflightRequests' = inflightRequests - 1
    /\ UNCHANGED <<FORCE_SHUTDOWN_TIMEOUT, isShuttingDown, sockets, gsClock,
                   waitForInflight, nextCheck, forceExitAt, exitCode, destroyedAll,
                   sequences, notGs>>

\* 'close' of a socket, line 46: the client has closed the connection, or the
\* socket was destroyed; a response that was not finished never is
GsSocketClose ==
    /\ exitCode = -1
    /\ sockets > 0
    /\ sockets' = sockets - 1
    /\ UNCHANGED <<FORCE_SHUTDOWN_TIMEOUT, inflightRequests, isShuttingDown, gsClock,
                   waitForInflight, nextCheck, forceExitAt, exitCode, destroyedAll,
                   sequences, notGs>>

\* SIGTERM, SIGINT or an uncaught exception: gracefulShutdown, lines 53-94
gracefulShutdown ==
    /\ exitCode = -1
    /\ IF isShuttingDown
       THEN UNCHANGED <<isShuttingDown, waitForInflight, nextCheck, sequences>>  \* line 54
       ELSE /\ isShuttingDown' = TRUE                                 \* line 55
            /\ sequences' = sequences + 1
            /\ waitForInflight' = TRUE                                \* line 72
            /\ nextCheck' = gsClock + checkInterval
    /\ UNCHANGED <<FORCE_SHUTDOWN_TIMEOUT, inflightRequests, sockets, gsClock,
                   forceExitAt, exitCode, destroyedAll, notGs>>

\* the callback of server.close, lines 59-67: no connection is open any more
ServerClosed ==
    /\ exitCode = -1 /\ isShuttingDown
    /\ sockets = 0
    /\ exitCode' = 0                                                  \* line 66
    /\ UNCHANGED <<FORCE_SHUTDOWN_TIMEOUT, inflightRequests, isShuttingDown, sockets,
                   gsClock, waitForInflight, nextCheck, forceExitAt, destroyedAll,
                   sequences, notGs>>

\* the interval's callback, lines 72-87
WaitForInflight ==
    /\ exitCode = -1 /\ waitForInflight
    /\ gsClock = nextCheck
    /\ IF inflightRequests = 0                                        \* line 74
       THEN /\ waitForInflight' = FALSE
            /\ UNCHANGED <<nextCheck, forceExitAt, destroyedAll>>
       ELSE IF gsClock > FORCE_SHUTDOWN_TIMEOUT                       \* line 77
       THEN /\ waitForInflight' = FALSE                               \* line 79
            /\ destroyedAll' = TRUE                                   \* lines 81-83
            /\ forceExitAt' = gsClock + exitGrace                     \* line 85
            /\ UNCHANGED nextCheck
       ELSE /\ nextCheck' = nextCheck + checkInterval
            /\ UNCHANGED <<waitForInflight, forceExitAt, destroyedAll>>
    /\ UNCHANGED <<FORCE_SHUTDOWN_TIMEOUT, inflightRequests, isShuttingDown, sockets,
                   gsClock, exitCode, sequences, notGs>>

\* the timer of line 85, or the one of lines 90-93, fires
ExitTimer ==
    /\ exitCode = -1 /\ isShuttingDown
    /\ \/ gsClock = forceExitAt
       \/ gsClock = FORCE_SHUTDOWN_TIMEOUT + safetyMargin
    /\ exitCode' = 1
    /\ UNCHANGED <<FORCE_SHUTDOWN_TIMEOUT, inflightRequests, isShuttingDown, sockets,
                   gsClock, waitForInflight, nextCheck, forceExitAt, destroyedAll,
                   sequences, notGs>>

\* checkInterval milliseconds pass; a callback that is due runs first, and so
\* does the callback of server.close
GsTick ==
    /\ exitCode = -1 /\ isShuttingDown
    /\ sockets > 0
    /\ ~(waitForInflight /\ gsClock = nextCheck)
    /\ gsClock # forceExitAt
    /\ gsClock < FORCE_SHUTDOWN_TIMEOUT + safetyMargin
    /\ gsClock' = gsClock + checkInterval
    /\ UNCHANGED <<FORCE_SHUTDOWN_TIMEOUT, inflightRequests, isShuttingDown, sockets,
                   waitForInflight, nextCheck, forceExitAt, exitCode, destroyedAll,
                   sequences, notGs>>

GsNext ==
    \/ GsConnect \/ GsRequest \/ GsFinish \/ GsSocketClose
    \/ gracefulShutdown \/ ServerClosed \/ WaitForInflight \/ ExitTimer \/ GsTick

GsSpec == GsInit /\ [][GsNext]_vars

\* --------------------------------------- part 9: setupGracefulShutdown
SgInit ==
    /\ FirstOff /\ RtOff /\ RfOff /\ BsOff /\ GsOff
    /\ \E t \in 1..MaxTimeout, n \in 0..MaxCleanup :
          SgStartState(t * (graceMs \div 2), n)

\* a client connects, lines 23-26; a server that was closed accepts none
SgConnect ==
    /\ sgExit = -1 /\ ~shuttingDown
    /\ connections < MaxSockets
    /\ connections' = connections + 1
    /\ UNCHANGED <<timeout, cleanupLeft, shuttingDown, sgClock, sgExit, endedAt,
                   endedSockets, exitAt, notSg>>

\* 'close' of a socket, line 25
SgSocketClose ==
    /\ sgExit = -1
    /\ connections > 0
    /\ connections' = connections - 1
    /\ UNCHANGED <<timeout, cleanupLeft, shuttingDown, sgClock, sgExit, endedAt,
                   endedSockets, exitAt, notSg>>

\* shutdown(signal) up to its await, lines 39-59
shutdown ==
    /\ sgExit = -1
    /\ IF shuttingDown
       THEN UNCHANGED shuttingDown                                    \* line 40
       ELSE shuttingDown' = TRUE                                      \* line 41
    /\ UNCHANGED <<timeout, cleanupLeft, connections, sgClock, sgExit, endedAt,
                   endedSockets, exitAt, notSg>>

\* runCleanup: the next cleanup function has returned, resolved or thrown,
\* lines 29-36
runCleanup ==
    /\ sgExit = -1 /\ shuttingDown
    /\ cleanupLeft > 0
    /\ cleanupLeft' = cleanupLeft - 1
    /\ UNCHANGED <<timeout, shuttingDown, connections, sgClock, sgExit, endedAt,
                   endedSockets, exitAt, notSg>>

\* shutdown after its await, lines 62-73: the open sockets are ended, their
\* destroy timers are set, and process.exit(0) is called in the same turn
ShutdownComplete ==
    /\ sgExit = -1 /\ shuttingDown
    /\ cleanupLeft = 0
    /\ endedSockets' = connections                                    \* line 64
    /\ endedAt' = sgClock
    /\ sgExit' = 0                                                    \* line 73
    /\ exitAt' = sgClock
    /\ UNCHANGED <<timeout, cleanupLeft, shuttingDown, connections, sgClock, notSg>>

\* the force-kill timer fires while the cleanup is running, lines 50-56
forceKill ==
    /\ sgExit = -1 /\ shuttingDown
    /\ sgClock = timeout
    /\ connections' = 0                                               \* line 53
    /\ sgExit' = 1                                                    \* line 55
    /\ exitAt' = sgClock
    /\ UNCHANGED <<timeout, cleanupLeft, shuttingDown, sgClock, endedAt,
                   endedSockets, notSg>>

\* time passes while a cleanup function runs
SgTick ==
    /\ sgExit = -1 /\ shuttingDown
    /\ cleanupLeft > 0
    /\ sgClock < timeout
    /\ sgClock' = sgClock + (graceMs \div 2)
    /\ UNCHANGED <<timeout, cleanupLeft, shuttingDown, connections, sgExit, endedAt,
                   endedSockets, exitAt, notSg>>

SgNext ==
    \/ SgConnect \/ SgSocketClose \/ shutdown \/ runCleanup \/ ShutdownComplete
    \/ forceKill \/ SgTick

SgSpec == SgInit /\ [][SgNext]_vars

\* ================================================================= claims
\* The record of a key, as a reader of the store sees it.
Claimed(k) == store[k] # NoRecord /\ store[k].val = processingMarker
Completed(k) == store[k] # NoRecord /\ store[k].val # processingMarker
Snapshot(k) == JSONparse(store[k].val)

\* The request carries a token and a method that asks for idempotency.
Tokened(r) == req[r].method \in methods /\ req[r].keyHeader # ""
\* The request won the claim and its handler is running.
Executing(r) == hooked[r] /\ pc[r] = "handler"
\* The step taken is the return of r's first redis.get, with a value.
ReadReturns(r) == pc[r] = "get" /\ pc'[r] \notin {"get", "catchGet"}
\* The step taken is the return of r's SET NX, with a reply.
ClaimReturns(r) == pc[r] = "claim" /\ pc'[r] \notin {"claim", "catchGet"}

\* C1: among the requests that carry the same method, path and token, the
\* handler is executed by one only: no two of them are executing it at once.
\* Stated for claims that are both younger than processingTtl, so that what
\* is refuted is not the expiry of a marker.
C1_OneExecution ==
    \A r1, r2 \in Reqs :
        (r1 # r2 /\ Executing(r1) /\ Executing(r2) /\ KeyOf(r1) = KeyOf(r2))
            => (claimLeft[r1] = 0 \/ claimLeft[r2] = 0)

\* C2: once a claim holder's handler has sent its response, a request for the
\* same key that arrives later, within ttl seconds, is answered by replay (and
\* so without running the handler).  Stated for a request that arrives after
\* the holder is over and reads in the very second of the answer (ttl >= 1),
\* when no other claim holder of the key is in flight: what is refuted is
\* neither a commit still on its way nor the end of the retention.
C2_ReplayAfterSend ==
    [][\A r \in Reqs :
          (/\ ReadReturns(r) /\ late[r]
           /\ \A q \in Reqs : (hooked[q] /\ KeyOf(q) = KeyOf(r)) => pc[q] = "done")
              => (pc'[r] = "done" /\ resp'[r].kind = "replay")]_vars

\* C3: the Completed record of a key is never replaced by a different result:
\* what a replay of the key answers is the same before and after every step
\* that leaves a Completed record in place.
C3_CompletedNeverReplaced ==
    [][\A k \in Keys :
          (Completed(k) /\ Completed(k)')
              => Replay(Snapshot(k))' = Replay(Snapshot(k))]_vars

\* C4: a read that returns a Completed record is answered with the stored
\* status, headers and body; the handler is not invoked and the store is left
\* as it is.
C4_ReplayVerbatim ==
    [][\A r \in Reqs :
          (ReadReturns(r) /\ Completed(KeyOf(r)))
              => /\ pc'[r] = "done"
                 /\ resp'[r].kind = "replay"
                 /\ resp'[r].status = Snapshot(KeyOf(r)).status
                 /\ resp'[r].ctype = Snapshot(KeyOf(r)).headers["content-type"]
                 /\ resp'[r].body = fromBase64(Snapshot(KeyOf(r)).body)
                 /\ nextCalls'[r] = <<>>
                 /\ store' = store]_vars

\* C5: every record a claim holder commits holds the status, the content-type
\* and the body bytes that were sent to its caller.
C5_CommittedIsWhatWasSent ==
    \A r \in Reqs :
        pc[r] = "commit" =>
            \A i \in DOMAIN pending[r] :
                LET stored == JSONparse(pending[r][i])
                IN  /\ stored.status = resp[r].status
                    /\ stored.headers["content-type"] = resp[r].ctype
                    /\ fromBase64(stored.body) = resp[r].body

\* C6: a request without a token, or with a method outside `methods`, issues
\* no store command, hooks nothing and is passed to the handler.
C6_BypassTouchesNothing ==
    \A r \in Reqs :
        (pc[r] # "idle" /\ ~Tokened(r))
            => /\ ops[r] = <<>>
               /\ nextCalls[r] = <<"ok">>
               /\ pc[r] \in {"handler", "done"}
               /\ ~hooked[r]
               /\ \A k \in Keys : store[k].owner # r

C6_Witness ==
    \E r \in Reqs :
        /\ ~Tokened(r) /\ pc[r] = "done" /\ resp[r].kind = "live"
        /\ \E k \in Keys : Claimed(k)

\* C7: a read that finds a Claimed record is answered 409 at once: no handler,
\* no further store command, no write.
C7_ClaimedSeenIsConflict ==
    [][\A r \in Reqs :
          (ReadReturns(r) /\ Claimed(KeyOf(r)))
              => /\ pc'[r] = "done"
                 /\ resp'[r].status = 409 /\ resp'[r].kind = "conflict"
                 /\ nextCalls'[r] = <<>>
                 /\ ops'[r] = <<"get">>
                 /\ store' = store]_vars

C7_Witness ==
    \E r \in Reqs :
        /\ pc[r] = "done" /\ resp[r].status = 409 /\ ops[r] = <<"get">>
        /\ Claimed(KeyOf(r))

C9_ClaimExpires ==
    [][/\ \A k \in Keys : Claimed(k)' => store'[k].left \in 1..processingTtl
       /\ \A r \in Reqs :
            (ClaimReturns(r) /\ store[KeyOf(r)] = NoRecord)
                => /\ pc'[r] = "handler" /\ hooked'[r]
                   /\ nextCalls'[r] = <<"ok">>
                   /\ Claimed(KeyOf(r))' /\ store'[KeyOf(r)].owner = r]_vars

\* the holder r1 never answered, its marker expired, and r2 is executing
C9_Witness ==
    \E r1, r2 \in Reqs :
        /\ r1 # r2 /\ KeyOf(r1) = KeyOf(r2)
        /\ Executing(r1) /\ claimLeft[r1] = 0
        /\ Executing(r2) /\ store[KeyOf(r2)].owner = r2 /\ Claimed(KeyOf(r2))

\* C10: a record is overwritten or deleted only by the request that wrote it
\* (or by expiry, which is no request's step).
C10_OnlyTheHolderWrites ==
    [][\A r \in Reqs, k \in Keys :
          (Step(r) /\ store[k] # NoRecord /\ store'[k] # store[k])
              => store[k].owner = r]_vars

\* The request won the claim, its handler failed, and the request is over.
HandlerFailed(r) == hooked[r] /\ pc[r] = "done" /\ resp[r].kind = "error"

\* C11: when the handler of a claim holder has failed, the holder's Claimed
\* record is released: once such a request is over, the store does not hold
\* its marker any more (so that a retry wins the claim at once).
C11_ReleasedOnHandlerFailure ==
    \A r \in Reqs :
        HandlerFailed(r) => ~(Claimed(KeyOf(r)) /\ store[KeyOf(r)].owner = r)

\* The request won the claim, its handler has answered, and the request is over.
HolderAnswered(r) == hooked[r] /\ pc[r] = "done" /\ resp[r].kind = "live"

\* C12: a claim holder whose handler has produced a response commits it: by
\* the time the request is over a redis.set of the response has been issued,
\* whichever of res.send, res.json, res.write and res.end the handler used.
C12_CommitAfterEveryResponse ==
    \A r \in Reqs :
        HolderAnswered(r) => \E i \in DOMAIN ops[r] : ops[r][i] = "set"

\* C13: the key is a function of (method, path, token) that is injective: two
\* requests get the same key if and only if their methods, paths and tokens
\* are equal.
C13_KeyInjective ==
    kout # <<>> => ((kout[1] = kout[2]) <=> (kin[1] = kin[2]))

\* C14: a request whose method asks for idempotency and whose token is empty
\* is rejected (InvalidKey): its handler is not executed and it issues no
\* store command.
C14_InvalidKeyRejected ==
    \A r \in Reqs :
        (pc[r] # "idle" /\ req[r].method \in methods /\ req[r].keyHeader = "")
            => (nextCalls[r] = <<>> /\ ops[r] = <<>>)

\* The step taken is the end of a commit of r that did not reach the store:
\* the command is off the list and the key does not hold what it carried.
CommitFails(r) ==
    /\ pc[r] = "commit" /\ pending'[r] = Tail(pending[r])
    /\ store'[KeyOf(r)] # [val |-> Head(pending[r]), left |-> ttl, owner |-> r]

\* The request has been given an error outcome: next(err) or an error response.
Surfaced(r) ==
    \/ \E i \in DOMAIN nextCalls[r] : nextCalls[r][i] = "err"
    \/ resp[r].kind = "error"

\* C15: a store command of a request that fails is not swallowed: the failure
\* of a commit is surfaced as an error outcome of the request.
C15_CommitFailureSurfaced ==
    [][\A r \in Reqs : CommitFails(r) => Surfaced(r)']_vars

\* how many times x occurs in the sequence
Count(seq, x) == Cardinality({i \in DOMAIN seq : seq[i] = x})

\* C16: for one request the middleware issues at most one read, at most one
\* SET NX and at most one commit, and passes the request on at most once.
C16_NoRetry ==
    \A r \in Reqs :
        /\ Count(ops[r], "get") <= 1
        /\ Count(ops[r], "setnx") <= 1
        /\ Count(ops[r], "set") <= 1
        /\ Count(nextCalls[r], "ok") <= 1

\* C17: every conflict response, after a read as after a lost SET NX, has
\* status 409 and carries the reason code operation_in_progress.
C17_ConflictReasonCode ==
    \A r \in Reqs :
        resp[r].kind = "conflict"
            => (resp[r].status = 409 /\ resp[r].error = "operation_in_progress")

\* C18: in every coordinator that can be constructed the claim TTL is smaller
\* than the completed-result TTL; a marker never has more than processingTtl
\* seconds to live and a stored response never more than ttl.
C18_ClaimTtlBelowTtl ==
    /\ processingTtl < ttl
    /\ \A k \in Keys :
          /\ Claimed(k) => store[k].left \in 1..processingTtl
          /\ Completed(k) => store[k].left \in 1..ttl

\* The requests of key k counted in its window number e that were passed on.
PassedIn(k, e) ==
    {r \in RlReqs : /\ current[r] > 0 /\ rlKey(identifier[r]) = k
                    /\ counted[r] = e /\ res[r].next}

\* C19: as long as no Redis command fails, of the requests of one identifier
\* counted in one window (from the INCR that returns 1 to the expiry of the
\* key) at most `max` are passed to next(), and every request counted beyond
\* `max` is answered 429 and not passed on.
C19_FixedWindowLimit ==
    ~rlFault =>
        /\ \A k \in RlKeys, e \in 0..MaxRlReqs : Cardinality(PassedIn(k, e)) <= max
        /\ \A r \in RlReqs :
              (rlPc[r] = "done" /\ current[r] > max)
                  => (res[r].status = 429 /\ ~res[r].next)

\* a window in which `max` requests were passed and one more was refused,
\* followed by a later window of the same key in which a request was passed
C19_Witness ==
    /\ ~rlFault
    /\ \E k \in RlKeys :
          /\ Cardinality(PassedIn(k, 0)) = max
          /\ \E r \in RlReqs :
                /\ rlKey(identifier[r]) = k /\ counted[r] = 0
                /\ current[r] = max + 1 /\ res[r].status = 429
          /\ PassedIn(k, 1) # {}

\* The requests the sliding-window limiter passed on after counting them.
SwPassed == {r \in RlReqs : swRes[r].next /\ ~swFault[r]}

\* C20: of the requests of one identifier, at most `max` are passed to next()
\* within any windowSize seconds (the interval that ends with a passed
\* request and is open at its other end), and a request answered 429 gets a
\* Retry-After of 1 to windowSize seconds.
C20_SlidingWindowLimit ==
    /\ \A r \in SwPassed :
          Cardinality({q \in SwPassed : /\ swId[q] = swId[r]
                                        /\ swRes[q].at <= swRes[r].at
                                        /\ swRes[q].at > swRes[r].at - windowMs})
              <= maxSw
    /\ \A r \in RlReqs :
          swRes[r].status = 429 => swRes[r].retryAfter \in 1..windowSize

\* C21: a request of the sliding-window limiter for which a Redis command
\* failed is passed to next() and gets no 429, and so is one of the
\* fixed-window limiter.
C21_FailOpen ==
    /\ \A r \in RlReqs :
          (swFault[r] /\ swPc[r] = "done")
              => (swRes[r].next /\ swRes[r].status # 429)
    /\ \A r \in RlReqs :
          (rlFault /\ rlPc[r] = "done" /\ current[r] = 0)   \* its INCR failed
              => (res[r].next /\ res[r].status # 429)

\* C22: fn is invoked at most `retries` times, with the attempt numbers 1, 2,
\* 3, ... in this order, and an attempt after the first starts only when the
\* attempt before it has rejected and the timer of its backoff delay has run
\* for the whole delay.
C22_AttemptsInOrder ==
    /\ Len(calls) <= options.retries
    /\ \A i \in 1..Len(calls) : calls[i] = i
    /\ \A i \in 2..Len(calls) :
          /\ Len(errors) >= i - 1
          /\ errors[i - 1].attempt = i - 1
          /\ Len(delays) >= i - 1
          /\ delays[i - 1].after = i - 1
          /\ delays[i - 1].fired
          /\ delays[i - 1].elapsed >= delays[i - 1].ms

\* the third attempt is running after delays of 1 ms and 2 ms
C22_Witness ==
    /\ rtPc = "fn"
    /\ calls = <<1, 2, 3>>
    /\ delays[1].elapsed = 1
    /\ delays[2].elapsed = 2

\* the error fn rejected with last
LastFnError == errors[Len(errors)]

\* the call has rejected with error e
RejectedWith(e) == rtPc = "done" /\ outcome = [kind |-> "rejected", err |-> e]

\* C23: when all `retries` attempts have failed the call rejects with the
\* error of the last of them; when fn rejects with an error for which
\* shouldRetry returns false the call rejects with that error, and onRetry is
\* not called for it, no delay is started after it and fn is not invoked again.
C23_LastErrorRejected ==
    /\ (rtPc = "done" /\ options.retries >= 1 /\ Len(errors) = options.retries)
          => RejectedWith(errors[options.retries])
    /\ \A i \in 1..Len(errors) :
          ~shouldRetry(errors[i]) =>
              /\ RejectedWith(errors[i])
              /\ Len(calls) = i
              /\ \A j \in 1..Len(onRetryCalls) : onRetryCalls[j].attempt # i
              /\ \A j \in 1..Len(delays) : delays[j].after # i

\* the second of three attempts failed with an error shouldRetry refuses,
\* after onRetry and a delay for the first
C23_Witness ==
    /\ options.retries = 3
    /\ Len(errors) = 2
    /\ ~shouldRetry(errors[2])
    /\ Len(onRetryCalls) = 1
    /\ delays[1].fired
    /\ RejectedWith(errors[2])

\* C24 as stated: once the signal is aborted fn is not invoked again and the
\* call, when it settles, rejects with 'Aborted'.
C24_AbortRejects ==
    aborted =>
        /\ Len(calls) = abortAt.calls
        /\ rtPc = "done" => outcome = [kind |-> "rejected", err |-> AbortedErr]

\* the attempt in flight when the signal was aborted has settled the call
SettledByAttempt ==
    \/ outcome.kind = "resolved"
    \/ /\ outcome.kind = "rejected"
       /\ Len(errors) = abortAt.calls
       /\ outcome.err = LastFnError
       /\ ~willRetry(LastFnError)
    \/ /\ outcome.kind = "rejected"
       /\ outcome.err = Err("onRetry", abortAt.calls, FALSE)

\* C24, amended: once the signal is aborted fn is not invoked again and no
\* delay is waited; an abort before the first attempt (of at least one:
\* retries >= 1) or during a backoff delay makes the call reject with
\* 'Aborted'; after an abort during an
\* attempt the call rejects with 'Aborted' unless that attempt settles it (fn
\* resolves, fn's error is final, or onRetry throws).
C24_AbortStopsRetries ==
    aborted =>
        /\ Len(calls) = abortAt.calls
        /\ rtPc # "timer"
        /\ (rtPc = "done" /\ abortAt.pc = "call" /\ options.retries >= 1)
              => outcome = [kind |-> "rejected", err |-> AbortedErr]
        /\ (rtPc = "done" /\ abortAt.pc = "timer")
              => outcome = [kind |-> "rejected", err |-> AbortedErr]
        /\ (rtPc = "done" /\ abortAt.pc = "fn")
              => (outcome = [kind |-> "rejected", err |-> AbortedErr] \/ SettledByAttempt)

\* the signal was aborted during an attempt with retries left; fn then
\* rejected with an error that would have been retried
C24_Witness ==
    /\ aborted
    /\ abortAt = [pc |-> "fn", calls |-> 1]
    /\ options.retries = 3
    /\ Len(errors) = 1
    /\ shouldRetry(errors[1])
    /\ RejectedWith(AbortedErr)

\* onRetry is called with the delay that is waited, once per delay
OnRetryTold ==
    options.onRetry # "none" =>
        /\ Len(onRetryCalls) >= Len(delays)
        /\ \A i \in 1..Len(delays) :
              onRetryCalls[i] = [attempt |-> delays[i].after, next |-> delays[i].ms]

\* a timer that has fired ran for the delay it was set to
Waited == \A i \in 1..Len(delays) : delays[i].fired => delays[i].elapsed = delays[i].ms

\* C25 as stated: the delay after attempt k is min(minDelay * factor^(k-1),
\* maxDelay) without jitter and an integer d with 0 <= d < that value with
\* jitter; it is at most maxDelay; onRetry is called with the delay waited.
C25_BackoffDelay ==
    /\ \A i \in 1..Len(delays) :
          LET cap == Min(options.minDelay * Pow(options.factor, delays[i].after - 1),
                         options.maxDelay)
          IN  /\ ~options.jitter => delays[i].ms = cap
              /\ options.jitter => (0 <= delays[i].ms /\ delays[i].ms < cap)
              /\ delays[i].ms <= options.maxDelay
    /\ OnRetryTold
    /\ Waited

\* C25, amended: as stated, but with jitter the delay is 0 when
\* min(minDelay * factor^(k-1), maxDelay) is 0.
C25_BackoffDelayOrZero ==
    /\ \A i \in 1..Len(delays) :
          LET cap == Min(options.minDelay * Pow(options.factor, delays[i].after - 1),
                         options.maxDelay)
          IN  /\ ~options.jitter => delays[i].ms = cap
              /\ options.jitter =>
                    (0 <= delays[i].ms /\ (delays[i].ms < cap \/ (cap = 0 /\ delays[i].ms = 0)))
              /\ delays[i].ms <= options.maxDelay
    /\ OnRetryTold
    /\ Waited

\* without jitter, minDelay 2, factor 2 and maxDelay 3: delays of 2 ms and of
\* 3 ms (capped) were waited and announced
C25_Witness ==
    /\ ~options.jitter
    /\ options.onRetry = "returns"
    /\ Len(delays) = 2
    /\ delays[1].ms = 2 /\ delays[2].ms = 3
    /\ delays[2].fired
    /\ Len(onRetryCalls) = 2

\* C26: a refresh token is accepted by /refresh at most once: no two calls
\* that presented the same refresh token are both answered with new tokens.
C26_RefreshTokenOnce ==
    \A r1, r2 \in RfCalls :
        (r1 # r2 /\ presented[r1] = presented[r2] /\ rfStatus[r1] = 200)
            => rfStatus[r2] # 200

\* C27: next is called at most once; a request whose Content-Length is above
\* maxBytes, or whose received bytes have come to exceed maxBytes, is
\* answered 413 exactly once and next is not called for it; a request whose
\* body has ended with at most maxBytes received has had next() called
\* exactly once, without an error.
C27_BodySizeGuard ==
    /\ Len(nexts) <= 1
    /\ (bsPc # "idle" /\ ~parsedIsNaN /\ parsedLen > maxBytes)
          => (ended = <<413>> /\ nexts = <<>>)
    /\ received > maxBytes => (ended = <<413>> /\ nexts = <<>>)
    /\ (bsPc = "done" /\ ended = <<>> /\ received <= maxBytes /\ nexts # <<"err">>)
          => nexts = <<"ok">>
    /\ nexts = <<"ok">> => (ended = <<>> /\ received <= maxBytes)

\* a chunked body went over the limit with its second chunk
C27_Witness ==
    /\ lenHeader = ""
    /\ maxBytes = 3
    /\ received = 4
    /\ ended = <<413>>
    /\ nexts = <<>>
    /\ destroyed

\* C28: after a termination signal the process exits: it has exited when
\* FORCE_SHUTDOWN_TIMEOUT + 1000 ms have passed since the signal; the exit
\* code is 0 only when the connections closed on their own, without having
\* been destroyed by the shutdown; and one shutdown sequence at most starts.
C28_ShutdownExits ==
    /\ (isShuttingDown /\ exitCode = -1)
          => gsClock <= FORCE_SHUTDOWN_TIMEOUT + safetyMargin
    /\ exitCode = 0 => ~destroyedAll
    /\ (exitCode # -1 /\ destroyedAll) => exitCode # 0
    /\ sequences <= 1

\* C29: when shutdown has ended the open sockets after the cleanup, the
\* process does not exit before the 1000 ms have passed after which they are
\* destroyed.
C29_GraceWindow ==
    (sgExit = 0 /\ endedSockets > 0) => exitAt >= endedAt + graceMs

\* The read or the SET NX of the request has failed: the catch block has
\* issued its own redis.get.
StoreCallFailed(r) == Count(ops[r], "get") >= 2

\* C30: a request whose read or SET NX failed does not reach the handler and
\* gets no response from the middleware, nothing is captured or stored for
\* it, next() is not called for it, and next(err) is called exactly once,
\* when the cleanup is over, whether the cleanup's commands fail or not.
C30_FailClosed ==
    \A r \in Reqs :
        StoreCallFailed(r) =>
            /\ pc[r] \in {"catchGet", "catchDel", "done"}
            /\ ~hooked[r]
            /\ resp[r].kind = "none"
            /\ Count(ops[r], "set") = 0
            /\ (pc[r] = "done" => nextCalls[r] = <<"err">>)
            /\ (pc[r] # "done" => nextCalls[r] = <<>>)

\* the SET NX of a request was applied but its reply was lost, and the
\* cleanup's DEL failed too: the request is over, with next(err)
C30_Witness ==
    \E r \in Reqs :
        /\ ops[r] = <<"get", "setnx", "get", "del">>
        /\ pc[r] = "done"
        /\ store[KeyOf(r)].owner = r
        /\ nextCalls[r] = <<"err">>

\* The step taken is the end of the catch block's cleanup for r: its
\* redis.get or its redis.del has returned or thrown, and next(err) follows.
CleanupEnds(r) ==
    Step(r) /\ pc[r] \in {"catchGet", "catchDel"} /\ pc'[r] = "done"

\* C31: when the middleware fails after its SET NX has written its own
\* Claimed marker, the cleanup has deleted that marker by the time the error
\* is forwarded with next(err), so that the next request with the same token
\* is not answered 409; and the cleanup never deletes a Completed record:
\* the step that ends a cleanup leaves a Completed record as it is.
C31_CleanupReleasesOwnMarker ==
    [][\A r \in Reqs :
          CleanupEnds(r) =>
              /\ ~(Claimed(KeyOf(r))' /\ store'[KeyOf(r)].owner = r)
              /\ (Completed(KeyOf(r)) => store'[KeyOf(r)] = store[KeyOf(r)])]_vars

====
